---- MODULE Spec2Model ----
(***************************************************************************)
(* Model of the nonogram line solver CInferenceEngine                      *)
(* (src/nonogram/inference.cc): Infer, Enumerate, Accumulate and Assign.   *)
(* Vectors and arrays are functions over 0..n-1 so that every index of the *)
(* model is the index the code uses.                                       *)
(***************************************************************************)
EXTENDS Integers, Sequences, FiniteSets, TLC

VARIABLES
    m_vecConst,      \* the clue: block lengths b[0..k-1]
    m_vecCells,      \* the line: cells[0..N-1]
    m_vecChanged,    \* per-cell changed flags
    m_bSelfChanged,  \* aggregate changed flag
    pc,              \* "idle", "call", "loop", "assign", "done"
    frame,           \* loop variable i of every active Enumerate frame
    pos,             \* int* pos of Infer
    accumulator,     \* TriState* accumulator of Infer
    bFirst,          \* bool bFirst of Infer
    idx,             \* loop variable of the write-back loop of Infer
    ret,             \* value returned by the last Infer call
    calls,           \* number of Infer calls started
    preCells,        \* history: m_vecCells when the current call started
    preChanged,      \* history: m_vecChanged when the current call started
    preSelfChanged,  \* history: m_bSelfChanged when the current call started
    prevRet,         \* history: value returned by the previous call
    folded           \* history: placements passed to Accumulate in this call

vars == <<m_vecConst, m_vecCells, m_vecChanged, m_bSelfChanged, pc, frame,
          pos, accumulator, bFirst, idx, ret, calls, preCells, preChanged,
          preSelfChanged, prevRet, folded>>

----------------------------------------------------------------------------
(* Bounds of the explored inputs *)
MaxN == 4
MaxK == 2
MaxBlock == 2
MaxCalls == 2

----------------------------------------------------------------------------
(* TriState *)
ts_dontknow == "ts_dontknow"
ts_true == "ts_true"
ts_false == "ts_false"
TriState == {ts_dontknow, ts_true, ts_false}

Size(v) == Cardinality(DOMAIN v)

----------------------------------------------------------------------------
(* Variant of AssignThrows: the contradiction test is dropped *)
AssignThrowsNever(cell, newVal) == FALSE

(* Assign: the contradiction test and the change test *)
AssignThrows(cell, newVal) == cell # newVal /\ cell # ts_dontknow

AssignChanges(cell, newVal) == cell # newVal

(* Accumulate: the scratch line tmp of one placement *)
Materialize(p, c, len) ==
    [x \in 0..(len - 1) |->
        IF \E i \in DOMAIN c : \E j \in 0..(c[i] - 1) : p[i] + j = x
        THEN ts_true ELSE ts_false]

(* Variant of Fold: a later placement that disagrees is ignored *)
FoldKeepsFirst(acc, tmp, first) ==
    [x \in DOMAIN acc |-> IF first THEN tmp[x] ELSE acc[x]]

(* Variant of Fold: the first placement does not seed the accumulator *)
FoldNoSeed(acc, tmp, first) ==
    [x \in DOMAIN acc |->
        IF acc[x] # tmp[x] THEN ts_dontknow ELSE acc[x]]

(* Accumulate: the fold of tmp into the accumulator *)
Fold(acc, tmp, first) ==
    [x \in DOMAIN acc |->
        IF first THEN tmp[x]
        ELSE IF acc[x] # tmp[x] THEN ts_dontknow ELSE acc[x]]

(* Variant of Start: no separating cell after the previous block *)
StartAdjacent(bb, p, c) == IF bb = 0 THEN 0 ELSE p[bb - 1] + c[bb - 1]

(* Enumerate: first candidate start of block bb *)
Start(bb, p, c) == IF bb = 0 THEN 0 ELSE p[bb - 1] + c[bb - 1] + 1

(* Variant of PrevSpaceStart: the cell right after the previous block is skipped *)
PrevSpaceStartSkips(bb, p, c) ==
    IF bb = 0 THEN 0 ELSE p[bb - 1] + c[bb - 1] + 1

PrevSpaceStart(bb, p, c) == IF bb = 0 THEN 0 ELSE p[bb - 1] + c[bb - 1]

(* Variant of ViolatesSolid: the gap before the block is not inspected *)
ViolatesSolidNever(cells, from, i) == FALSE

(* Enumerate: a known solid in the gap before the block *)
ViolatesSolid(cells, from, i) ==
    \E j \in from..(i - 1) : cells[j] = ts_true

(* Variant of ViolatesSpace: only the fit in the line is tested *)
ViolatesSpaceFitOnly(cells, c, bb, i) ==
    \E j \in i..(i + c[bb] - 1) : j >= Size(cells)

(* Enumerate: the block leaves the line or covers a known space *)
ViolatesSpace(cells, c, bb, i) ==
    \E j \in i..(i + c[bb] - 1) :
        IF j >= Size(cells) THEN TRUE ELSE cells[j] = ts_false

(* Variant of ViolatesTail: the cells after the last block are not inspected *)
ViolatesTailNever(cells, c, bb, i) == FALSE

(* Enumerate: a known solid after the last block *)
ViolatesTail(cells, c, bb, i) ==
    /\ bb = Size(c) - 1
    /\ \E j \in (i + c[bb])..(Size(cells) - 1) : cells[j] = ts_true

(* Enumerate: the three checks of one candidate start, in the code's order *)
Pruned(cells, c, bb, p, i) ==
    IF ViolatesSolid(cells, PrevSpaceStart(bb, p, c), i) THEN TRUE
    ELSE IF ViolatesSpace(cells, c, bb, i) THEN TRUE
    ELSE ViolatesTail(cells, c, bb, i)

----------------------------------------------------------------------------
(* Inputs *)
Constraints == UNION {[0..(k - 1) -> 1..MaxBlock] : k \in 0..MaxK}
Lines == UNION {[0..(n - 1) -> TriState] : n \in 1..MaxN}

Scenario1 == [const |-> [i \in 0..0 |-> 5],
              cells |-> [i \in 0..9 |-> ts_dontknow]]
Scenario4 == [const |-> [i \in 0..0 |-> 2],
              cells |-> [i \in 0..4 |-> IF i = 0 THEN ts_true
                                        ELSE IF i = 1 THEN ts_false
                                        ELSE ts_dontknow]]
Scenario5 == [const |-> [i \in 0..0 |-> 2],
              cells |-> [i \in 0..9 |-> IF i <= 2 THEN ts_true
                                        ELSE ts_dontknow]]

Inputs == {[const |-> c, cells |-> l] : c \in Constraints, l \in Lines}
            \cup {Scenario1, Scenario4, Scenario5}

InitChangeSet ==
    /\ m_vecChanged = [i \in DOMAIN m_vecCells |-> FALSE]
    /\ m_bSelfChanged = FALSE

Init ==
    /\ \E input \in Inputs :
          /\ m_vecConst = input.const
          /\ m_vecCells = input.cells
    /\ InitChangeSet
    /\ pc = "idle"
    /\ frame = <<>>
    /\ pos = <<>>
    /\ accumulator = <<>>
    /\ bFirst = TRUE
    /\ idx = 0
    /\ ret = 0
    /\ calls = 0
    /\ preCells = m_vecCells
    /\ preChanged = m_vecChanged
    /\ preSelfChanged = m_bSelfChanged
    /\ prevRet = 0
    /\ folded = <<>>

----------------------------------------------------------------------------
(* Infer, up to the call Enumerate(0, pos, accumulator, bFirst) *)
InferStart ==
    /\ pc \in {"idle", "done"}
    /\ calls < MaxCalls
    /\ calls' = calls + 1
    /\ pos' = [i \in DOMAIN m_vecConst |-> 0]
    /\ accumulator' = [i \in DOMAIN m_vecCells |-> ts_dontknow]
    /\ bFirst' = TRUE
    /\ frame' = <<>>
    /\ idx' = 0
    /\ pc' = "call"
    /\ preCells' = m_vecCells
    /\ preChanged' = m_vecChanged
    /\ preSelfChanged' = m_bSelfChanged
    /\ prevRet' = ret
    /\ folded' = <<>>
    /\ UNCHANGED <<m_vecConst, m_vecCells, m_vecChanged, m_bSelfChanged, ret>>

(* Enumerate(b, ...) with b == m_vecConst.size(): Accumulate and return *)
EnumerateBase ==
    /\ pc = "call"
    /\ Len(frame) = Size(m_vecConst)
    /\ accumulator' = Fold(accumulator,
                           Materialize(pos, m_vecConst, Size(m_vecCells)),
                           bFirst)
    /\ bFirst' = FALSE
    /\ folded' = Append(folded, pos)
    /\ IF frame = <<>>
       THEN pc' = "assign" /\ frame' = frame
       ELSE pc' = "loop" /\ frame' = [frame EXCEPT ![Len(frame)] = @ + 1]
    /\ UNCHANGED <<m_vecConst, m_vecCells, m_vecChanged, m_bSelfChanged, pos,
                   idx, ret, calls, preCells, preChanged, preSelfChanged,
                   prevRet>>

(* Enumerate(b, ...) with b < m_vecConst.size(): start of the for loop *)
EnumerateEnter ==
    /\ pc = "call"
    /\ Len(frame) < Size(m_vecConst)
    /\ frame' = Append(frame, Start(Len(frame), pos, m_vecConst))
    /\ pc' = "loop"
    /\ UNCHANGED <<m_vecConst, m_vecCells, m_vecChanged, m_bSelfChanged, pos,
                   accumulator, bFirst, idx, ret, calls, preCells, preChanged,
                   preSelfChanged, prevRet, folded>>

(* one iteration of the for loop that ends in a continue *)
EnumeratePrune ==
    /\ pc = "loop"
    /\ LET b == Len(frame) - 1
           i == frame[Len(frame)]
       IN /\ i < Size(m_vecCells)
          /\ pos' = [pos EXCEPT ![b] = i]
          /\ Pruned(m_vecCells, m_vecConst, b, pos', i)
          /\ frame' = [frame EXCEPT ![Len(frame)] = i + 1]
    /\ UNCHANGED <<m_vecConst, m_vecCells, m_vecChanged, m_bSelfChanged, pc,
                   accumulator, bFirst, idx, ret, calls, preCells, preChanged,
                   preSelfChanged, prevRet, folded>>

(* one iteration of the for loop that reaches Enumerate(b+1, ...) *)
EnumerateRecurse ==
    /\ pc = "loop"
    /\ LET b == Len(frame) - 1
           i == frame[Len(frame)]
       IN /\ i < Size(m_vecCells)
          /\ pos' = [pos EXCEPT ![b] = i]
          /\ ~Pruned(m_vecCells, m_vecConst, b, pos', i)
    /\ pc' = "call"
    /\ UNCHANGED <<m_vecConst, m_vecCells, m_vecChanged, m_bSelfChanged,
                   frame, accumulator, bFirst, idx, ret, calls, preCells,
                   preChanged, preSelfChanged, prevRet, folded>>

(* the for loop ends: Enumerate(b, ...) returns to its caller *)
EnumerateReturn ==
    /\ pc = "loop"
    /\ frame[Len(frame)] >= Size(m_vecCells)
    /\ IF Len(frame) = 1
       THEN pc' = "assign" /\ frame' = <<>>
       ELSE /\ pc' = "loop"
            /\ frame' = [SubSeq(frame, 1, Len(frame) - 1)
                            EXCEPT ![Len(frame) - 1] = @ + 1]
    /\ UNCHANGED <<m_vecConst, m_vecCells, m_vecChanged, m_bSelfChanged, pos,
                   accumulator, bFirst, idx, ret, calls, preCells, preChanged,
                   preSelfChanged, prevRet, folded>>

(* write-back loop: accumulator[i] == ts_dontknow *)
AssignSkip ==
    /\ pc = "assign"
    /\ idx < Size(m_vecCells)
    /\ accumulator[idx] = ts_dontknow
    /\ idx' = idx + 1
    /\ UNCHANGED <<m_vecConst, m_vecCells, m_vecChanged, m_bSelfChanged, pc,
                   frame, pos, accumulator, bFirst, ret, calls, preCells,
                   preChanged, preSelfChanged, prevRet, folded>>

(* write-back loop: Assign finds the cell already equal to the new value *)
AssignSame ==
    /\ pc = "assign"
    /\ idx < Size(m_vecCells)
    /\ accumulator[idx] # ts_dontknow
    /\ ~AssignChanges(m_vecCells[idx], accumulator[idx])
    /\ idx' = idx + 1
    /\ UNCHANGED <<m_vecConst, m_vecCells, m_vecChanged, m_bSelfChanged, pc,
                   frame, pos, accumulator, bFirst, ret, calls, preCells,
                   preChanged, preSelfChanged, prevRet, folded>>

(* write-back loop: Assign writes the cell and the ChangeSet *)
AssignWrite ==
    /\ pc = "assign"
    /\ idx < Size(m_vecCells)
    /\ accumulator[idx] # ts_dontknow
    /\ AssignChanges(m_vecCells[idx], accumulator[idx])
    /\ ~AssignThrows(m_vecCells[idx], accumulator[idx])
    /\ m_vecCells' = [m_vecCells EXCEPT ![idx] = accumulator[idx]]
    /\ m_bSelfChanged' = TRUE
    /\ m_vecChanged' = [m_vecChanged EXCEPT ![idx] = TRUE]
    /\ idx' = idx + 1
    /\ UNCHANGED <<m_vecConst, pc, frame, pos, accumulator, bFirst, ret,
                   calls, preCells, preChanged, preSelfChanged, prevRet, folded>>

(* write-back loop: Assign throws, Infer catches and returns -1 *)
AssignThrow ==
    /\ pc = "assign"
    /\ idx < Size(m_vecCells)
    /\ accumulator[idx] # ts_dontknow
    /\ AssignChanges(m_vecCells[idx], accumulator[idx])
    /\ AssignThrows(m_vecCells[idx], accumulator[idx])
    /\ ret' = -1
    /\ pc' = "done"
    /\ UNCHANGED <<m_vecConst, m_vecCells, m_vecChanged, m_bSelfChanged,
                   frame, pos, accumulator, bFirst, idx, calls, preCells,
                   preChanged, preSelfChanged, prevRet, folded>>

(* the write-back loop ends: Infer returns 0 *)
InferReturn ==
    /\ pc = "assign"
    /\ idx >= Size(m_vecCells)
    /\ ret' = 0
    /\ pc' = "done"
    /\ UNCHANGED <<m_vecConst, m_vecCells, m_vecChanged, m_bSelfChanged,
                   frame, pos, accumulator, bFirst, idx, calls, preCells,
                   preChanged, preSelfChanged, prevRet, folded>>

Next ==
    \/ InferStart
    \/ EnumerateBase
    \/ EnumerateEnter
    \/ EnumeratePrune
    \/ EnumerateRecurse
    \/ EnumerateReturn
    \/ AssignSkip
    \/ AssignSame
    \/ AssignWrite
    \/ AssignThrow
    \/ InferReturn

Spec == Init /\ [][Next]_vars

----------------------------------------------------------------------------
(* Independent brute-force enumeration of the placements of a line *)
AllPositions(c, n) == [DOMAIN c -> 0..(n - 1)]

Geometric(p, c, n) ==
    \A i \in DOMAIN c :
        /\ p[i] >= 0
        /\ p[i] + c[i] <= n
        /\ (i > 0 => p[i] >= p[i - 1] + c[i - 1] + 1)

Covers(p, c, x) == \E i \in DOMAIN c : p[i] <= x /\ x < p[i] + c[i]

Consistent(p, c, cells) ==
    \A x \in DOMAIN cells :
        /\ (cells[x] = ts_false => ~Covers(p, c, x))
        /\ (cells[x] = ts_true => Covers(p, c, x))

BrutePlacements(c, cells) ==
    {p \in AllPositions(c, Size(cells)) :
        Geometric(p, c, Size(cells)) /\ Consistent(p, c, cells)}

BruteIntersection(c, cells) ==
    LET P == BrutePlacements(c, cells)
    IN [x \in DOMAIN cells |->
          IF \A p \in P : Covers(p, c, x) THEN ts_true
          ELSE IF \A p \in P : ~Covers(p, c, x) THEN ts_false
          ELSE ts_dontknow]

WrittenInCall(i) == preCells[i] = ts_dontknow /\ m_vecCells[i] # ts_dontknow

IsInput(in) == m_vecConst = in.const /\ preCells = in.cells

IsScenario5 ==
    /\ m_vecConst = [i \in 0..0 |-> 2]
    /\ Size(preCells) >= 3
    /\ \A i \in DOMAIN preCells :
          preCells[i] = IF i <= 2 THEN ts_true ELSE ts_dontknow

----------------------------------------------------------------------------
(* C1: when at least one placement consistent with the pre-call cells      *)
(* exists, the cells after Infer returns equal the brute-force             *)
(* intersection: Filled where every consistent placement covers the cell,  *)
(* Empty where none does, Unknown otherwise.                               *)
C1_MatchesBruteForce ==
    (pc = "done" /\ BrutePlacements(m_vecConst, preCells) # {})
        => m_vecCells = BruteIntersection(m_vecConst, preCells)

C1_Witness ==
    /\ pc = "done"
    /\ Size(m_vecConst) = 2
    /\ Cardinality(BrutePlacements(m_vecConst, preCells)) >= 2
    /\ \E i \in DOMAIN m_vecCells :
          preCells[i] = ts_dontknow /\ m_vecCells[i] = ts_true
    /\ \E i \in DOMAIN m_vecCells : m_vecCells[i] = ts_dontknow

(* C2: monotonicity: in every step, during or after any Infer call, also   *)
(* one that ends in Contradiction, a Filled cell stays Filled and an Empty *)
(* cell stays Empty; only Unknown cells are ever written.                  *)
C2_Monotonic ==
    [][/\ DOMAIN m_vecCells' = DOMAIN m_vecCells
       /\ \A i \in DOMAIN m_vecCells :
             m_vecCells[i] # ts_dontknow => m_vecCells'[i] = m_vecCells[i]]_vars

C2_Witness ==
    /\ pc = "done"
    /\ ret = -1
    /\ \E i \in DOMAIN m_vecCells : WrittenInCall(i)
    /\ \E i \in DOMAIN m_vecCells : preCells[i] = ts_true

(* C3: idempotence: a second Infer call right after a successful one       *)
(* returns success, leaves every cell as the first call left it, and the   *)
(* aggregate changed flag read after it is false.                          *)
C3_Idempotent ==
    (pc = "done" /\ calls >= 2 /\ prevRet = 0)
        => /\ ret = 0
           /\ m_vecCells = preCells
           /\ m_bSelfChanged = FALSE

(* C4: after any Infer call that returns success, changed[i] is true       *)
(* exactly for the cells that went from Unknown to Filled or Empty during  *)
(* this call, and the aggregate flag is true exactly when there is one.    *)
C4_ChangeSetPerCall ==
    (pc = "done" /\ ret = 0)
        => /\ \A i \in DOMAIN m_vecCells : m_vecChanged[i] = WrittenInCall(i)
           /\ m_bSelfChanged = (\E i \in DOMAIN m_vecCells : WrittenInCall(i))

(* C5 as stated: with constraint [2] and cells 0, 1 and 2 pre-set Filled,  *)
(* Infer returns the Contradiction status.                                 *)
C5_Scenario5Contradiction ==
    (pc = "done" /\ IsScenario5) => ret = -1

(* C5 as amended: with constraint [2] and cells 0, 1 and 2 pre-set Filled  *)
(* no placement is folded, Infer returns success and no cell changes.      *)
C5_Scenario5NoOp ==
    (pc = "done" /\ IsScenario5)
        => /\ ret = 0
           /\ folded = <<>>
           /\ m_vecCells = preCells

C5_Witness ==
    /\ pc = "done"
    /\ IsInput(Scenario5)
    /\ calls = 1

(* C6 as stated: with constraint [5] on 10 Unknown cells, Infer returns    *)
(* success, cell 4 becomes Filled and the other cells stay Unknown.        *)
C6_Scenario1Cell4Filled ==
    (pc = "done" /\ IsInput(Scenario1))
        => /\ ret = 0
           /\ \A i \in DOMAIN m_vecCells :
                 m_vecCells[i] = IF i = 4 THEN ts_true ELSE ts_dontknow

(* C6 as amended: with constraint [5] on 10 Unknown cells, Infer returns   *)
(* success and every cell, cell 4 included, stays Unknown.                 *)
C6_Scenario1AllUnknown ==
    (pc = "done" /\ IsInput(Scenario1))
        => /\ ret = 0
           /\ \A i \in DOMAIN m_vecCells : m_vecCells[i] = ts_dontknow

C6_Witness ==
    /\ pc = "done"
    /\ IsInput(Scenario1)
    /\ Len(folded) = 6
    /\ folded[1][0] = 0
    /\ folded[6][0] = 5

(* C7: for a non-empty constraint with zero valid placements, Accumulate   *)
(* is never invoked, Infer returns success, every cell keeps its pre-call  *)
(* value and the call sets no changed flag.                                *)
C7_UnsatisfiableNoOp ==
    (pc # "idle" /\ Size(m_vecConst) >= 1
        /\ BrutePlacements(m_vecConst, preCells) = {})
        => /\ folded = <<>>
           /\ bFirst = TRUE
           /\ m_vecCells = preCells
           /\ m_vecChanged = preChanged
           /\ m_bSelfChanged = preSelfChanged
           /\ (pc = "done" => ret = 0)

C7_Witness ==
    /\ pc = "done"
    /\ IsInput(Scenario4)
    /\ calls = 1

(* C8: with an empty constraint and no pre-set Filled cell, the vacuous    *)
(* placement is folded exactly once and Infer returns success with every   *)
(* cell Empty.                                                             *)
C8_EmptyConstraint ==
    (pc = "done" /\ Size(m_vecConst) = 0
        /\ \A i \in DOMAIN preCells : preCells[i] # ts_true)
        => /\ Len(folded) = 1
           /\ ret = 0
           /\ \A i \in DOMAIN m_vecCells : m_vecCells[i] = ts_false

C8_Witness ==
    /\ pc = "done"
    /\ Size(m_vecConst) = 0
    /\ ret = 0
    /\ \E i \in DOMAIN preCells : preCells[i] = ts_dontknow
    /\ \E i \in DOMAIN preCells : preCells[i] = ts_false

(* C9: every placement passed to Accumulate has pos[0] >= 0, blocks in     *)
(* order with at least one cell between them and every block inside the    *)
(* line, so every scratch index pos[i]+j lies in 0..N-1; no placement is   *)
(* folded twice in one call.                                               *)
C9_PlacementInvariant ==
    /\ \A n \in 1..Len(folded) :
          LET p == folded[n]
          IN /\ (Size(m_vecConst) >= 1 => p[0] >= 0)
             /\ \A i \in DOMAIN m_vecConst :
                   /\ (i >= 1 => p[i] >= p[i - 1] + m_vecConst[i - 1] + 1)
                   /\ p[i] + m_vecConst[i] <= Size(m_vecCells)
                   /\ \A j \in 0..(m_vecConst[i] - 1) :
                         p[i] + j \in 0..(Size(m_vecCells) - 1)
    /\ \A n1, n2 \in 1..Len(folded) : n1 # n2 => folded[n1] # folded[n2]

C9_Witness ==
    /\ Size(m_vecConst) = 2
    /\ Len(folded) >= 3
    /\ \E n \in 1..Len(folded) : folded[n][1] > folded[n][0] + m_vecConst[0] + 1

(* C10: Infer returns Contradiction exactly when the constraint is empty   *)
(* and a pre-call cell is Filled.  With k >= 1 every folded placement      *)
(* agrees with the known cells and Infer returns success; with k = 0 and   *)
(* lowest Filled index f, every Unknown cell below f has been written      *)
(* Empty and the cells from f on are untouched.                            *)
LowestFilled(cells) ==
    CHOOSE f \in DOMAIN cells :
        cells[f] = ts_true /\ \A g \in DOMAIN cells : cells[g] = ts_true => f <= g

C10_ContradictionIffEmptyClue ==
    /\ (Size(m_vecConst) >= 1 =>
          \A n \in 1..Len(folded) : Consistent(folded[n], m_vecConst, preCells))
    /\ (pc = "done" =>
          /\ (ret = -1) <=> (/\ Size(m_vecConst) = 0
                             /\ \E i \in DOMAIN preCells : preCells[i] = ts_true)
          /\ ret \in {0, -1}
          /\ (ret = -1 =>
                LET f == LowestFilled(preCells)
                IN \A i \in DOMAIN m_vecCells :
                      m_vecCells[i] = IF i < f THEN ts_false ELSE preCells[i]))

C10_Witness ==
    /\ pc = "done"
    /\ ret = -1
    /\ \E i \in DOMAIN m_vecCells : WrittenInCall(i)
    /\ \E i \in DOMAIN m_vecCells :
          i > LowestFilled(preCells) /\ m_vecCells[i] = ts_dontknow

====
